---------------------------- MODULE Spec2Model ----------------------------
(***************************************************************************)
(* Model of the N-ary cursor combinators of cpp-lazy.                      *)
(*                                                                         *)
(* A member cursor is modelled by its offset from the member's begin, an   *)
(* integer: begin[i] = 0 and end[i] = the member's length.  A cursor group  *)
(* (std::tuple<Iterators...>) is a sequence of such offsets.  The C++       *)
(* tuple index I (0-based) is the sequence index I + 1 here, so the         *)
(* recursions that start at std::get<0> start at index 1 and those that     *)
(* start at sizeof...(Iterators) - 1 start at index Len(tuple).             *)
(***************************************************************************)
EXTENDS Integers, Sequences, FiniteSets, TLC

\* Largest number of member sequences of a combinator.
MaxN ==
    3

\* Largest length of one member sequence.
MaxLen ==
    2

\* Number of extra operator++ calls made on a cursor that already equals end.
MaxExtra ==
    1

\* Width in bits of std::size_t and std::ptrdiff_t in the model.
SizeBits ==
    7

\* Largest length of a string that is split.
MaxStr ==
    4

\* Largest length of a delimiter.
MaxDelim ==
    2

\* Largest N of SeedSequence<N>.
MaxSeedN ==
    3

\* Largest length of the output range passed to generate.
MaxOut ==
    40

VARIABLES
    lens,     \* the member sequences' lengths, fixed at construction
    c,        \* _iterators of the cursor that is stepped from begin()
    steps,    \* number of operator++ calls made on c
    out,      \* the values operator* returned on c, in order
    a,        \* _iterators of a copy of c (tmp(*this)) that operators act on
    apos,     \* the position the operators applied to a were asked to reach
    op1,      \* first operator applied to a since it was copied from c
    op2,      \* second operator applied to a since it was copied from c
    b,        \* _iterators of a cursor saved from c during the traversal
    bsteps,   \* value of steps when b was saved
    cur,      \* _iterators of the Cartesian product cursor
    csteps,   \* number of step-forwards made on cur
    cout,     \* the combinations dereferenced on cur, in order
    since,    \* since[i][j]: advances of member j since member i last changed
    ret,      \* what the last value-returning operator applied to a returned
    view,     \* the begin and end cursors a combinator view stores
    cx,       \* a cursor object copied out of view.begin, first traversal
    cy,       \* a cursor object copied out of view.begin, second traversal
    outx,     \* the values the first traversal dereferenced
    outy,     \* the values the second traversal dereferenced
    vret,     \* what the last value-returning operator applied to cx returned
    vlast,    \* the last operator applied to cx or cy
    tags,     \* iterator_category of each member cursor type
    ti,       \* number of member tags std::common_type has folded
    acc,      \* the common type of the first ti tags
    jdir,     \* the jump being unfolded: "+=" (PlusIs) or "-=" (MinIs)
    jstart,   \* _iterators when the jump was called
    jk,       \* the offset the jump was called with
    jit,      \* _iterators during the jump
    joff,     \* the offset passed to the current instantiation
    jI,       \* the member index of the current instantiation, 0 once returned
    jvis,     \* the member indices instantiated so far, in order
    ramount,  \* the amount argument of random(), as std::size_t
    rview,    \* the Random view that random() returned
    sstr,     \* the string a split view is over, a sequence of characters
    sdelim,   \* the delimiter of the split view
    sit,      \* the split cursor stepped from begin: _currentPos and _last
    send,     \* the split view's end cursor
    stoks,    \* the tokens operator* returned on sit, in order
    ssteps,   \* number of operator++ calls made on sit
    gN,       \* N of SeedSequence<N>, the size of _seed
    gn,       \* length of the output range passed to generate
    gphase,   \* where generate is: "idle", "loop1", "loop2" or "done"
    gk,       \* the loop counter k of generate
    gacc,     \* the indices the last loop iteration used
    gwritten  \* the positions of the output range written so far

viewVars ==
    <<view, cx, cy, outx, outy, vret, vlast>>

catVars ==
    <<tags, ti, acc>>

jumpVars ==
    <<jdir, jstart, jk, jit, joff, jI, jvis>>

randVars ==
    <<ramount, rview>>

splitVars ==
    <<sstr, sdelim, sit, send, stoks, ssteps>>

genVars ==
    <<gN, gn, gphase, gk, gacc, gwritten>>

extVars ==
    <<viewVars, catVars, jumpVars, randVars, splitVars, genVars>>

vars ==
    <<lens, c, steps, out, a, apos, op1, op2, b, bsteps, cur, csteps, cout, since,
      ret, extVars>>

concatVars ==
    <<c, steps, out, a, apos, op1, op2, ret>>

distVars ==
    <<b, bsteps>>

cartVars ==
    <<cur, csteps, cout, since>>

-----------------------------------------------------------------------------
(* The member sequences and the three tuples of a composite cursor.         *)

\* Every combination of 1..MaxN member lengths in 0..MaxLen.
LensSet ==
    UNION {[1..n -> 0..MaxLen] : n \in 1..MaxN}

\* sizeof...(Iterators)
N ==
    Len(lens)

\* _begin: every member at its begin.
Begin ==
    [i \in 1..N |-> 0]

\* _end: every member at its end.
End ==
    lens

RECURSIVE SumSeq(_, _)
\* std::accumulate over the first n entries of s.
SumSeq(s, n) ==
    IF n = 0 THEN 0 ELSE s[n] + SumSeq(s, n - 1)

\* Total number of elements of the concatenation.
Total ==
    SumSeq(lens, N)

\* *std::get<I>(iterators): the element of member I at offset p.
Star(I, p) ==
    <<I, p>>

-----------------------------------------------------------------------------
(* Propagation helpers of ConcatenateIterator.hpp (the if-constexpr forms). *)

RECURSIVE PlusPlusLastSkipped(_, _, _)
\* PlusPlus with the recursion ended one member early, as PlusIs ends it.
PlusPlusLastSkipped(iterators, end, I) ==
    IF I >= Len(iterators) THEN iterators
    ELSE IF iterators[I] # end[I]
         THEN [iterators EXCEPT ![I] = @ + 1]
         ELSE PlusPlusLastSkipped(iterators, end, I + 1)

\* PlusPlus that advances member I without looking whether it is at its end.
PlusPlusNoSkip(iterators, end, I) ==
    [iterators EXCEPT ![I] = @ + 1]

RECURSIVE PlusPlusPastEnd(_, _, _)
\* PlusPlus whose base case (every member at its end) advances the last
\* member instead of doing nothing.
PlusPlusPastEnd(iterators, end, I) ==
    IF I = Len(iterators) + 1
    THEN [iterators EXCEPT ![Len(iterators)] = @ + 1]
    ELSE IF iterators[I] # end[I]
         THEN [iterators EXCEPT ![I] = @ + 1]
         ELSE PlusPlusPastEnd(iterators, end, I + 1)

RECURSIVE PlusPlus(_, _, _)
\* struct PlusPlus: advance the first member that is not at its end; with
\* I == tuple_size (every member at its end) do nothing.
PlusPlus(iterators, end, I) ==
    IF I = Len(iterators) + 1 THEN iterators
    ELSE IF iterators[I] # end[I]
         THEN [iterators EXCEPT ![I] = @ + 1]
         ELSE PlusPlus(iterators, end, I + 1)

\* NotEqual that compares member I only and never scans further.
NotEqualFirstOnly(iterators, end, I) ==
    iterators[I] # end[I]

RECURSIVE NotEqual(_, _, _)
\* struct NotEqual: true at the first member that differs; the last member's
\* comparison is the base case.
NotEqual(iterators, end, I) ==
    IF I = Len(iterators) THEN iterators[I] # end[I]
    ELSE LET iterHasValue == iterators[I] # end[I]
         IN  IF iterHasValue THEN iterHasValue ELSE NotEqual(iterators, end, I + 1)

\* Deref that never skips a member that is at its end.
DerefNoSkip(iterators, end, I) ==
    Star(I, iterators[I])

RECURSIVE Deref(_, _, _)
\* struct Deref: the value at the first member not at its end; the last
\* member is dereferenced unconditionally.
Deref(iterators, end, I) ==
    IF I = Len(iterators) THEN Star(I, iterators[I])
    ELSE IF iterators[I] # end[I]
         THEN Star(I, iterators[I])
         ELSE Deref(iterators, end, I + 1)

\* MinusMinus that decrements member I without looking whether it is at its
\* begin.
MinusMinusNoScan(iterators, begin, end, I) ==
    [iterators EXCEPT ![I] = @ - 1]

RECURSIVE MinusMinus(_, _, _, _)
\* struct MinusMinus: from the last member down, decrement the first member
\* that is not at its begin; member 0 is decremented unconditionally.
MinusMinus(iterators, begin, end, I) ==
    IF I = 1 THEN [iterators EXCEPT ![1] = @ - 1]
    ELSE IF iterators[I] # begin[I]
         THEN [iterators EXCEPT ![I] = @ - 1]
         ELSE MinusMinus(iterators, begin, end, I - 1)

RECURSIVE MinIs(_, _, _, _, _)
\* struct MinIs: from the last member down; dist is taken from the member's
\* end (std::get<I>(end) - current), as the code takes it.
MinIs(iterators, begin, end, offset, I) ==
    IF I = 1 THEN [iterators EXCEPT ![1] = @ - offset]
    ELSE IF iterators[I] = begin[I]
         THEN MinIs(iterators, begin, end, offset, I - 1)
         ELSE LET dist == end[I] - iterators[I]
              IN  IF dist <= offset
                  THEN MinIs([iterators EXCEPT ![I] = begin[I]], begin, end,
                             IF dist = 0 THEN 1 ELSE offset - dist, I - 1)
                  ELSE [iterators EXCEPT ![I] = @ - offset]

RECURSIVE PlusIs(_, _, _, _)
\* struct PlusIs: from member 0 up; with I == tuple_size - 1 (the last member)
\* it returns without touching the cursor.
PlusIs(iterators, end, offset, I) ==
    IF I = Len(iterators) THEN iterators
    ELSE LET dist == end[I] - iterators[I]
         IN  IF dist > offset
             THEN [iterators EXCEPT ![I] = @ + offset]
             ELSE PlusIs([iterators EXCEPT ![I] = @ + dist], end, offset - dist, I + 1)

-----------------------------------------------------------------------------
(* Members of class ConcatenateIterator.                                    *)

\* minus that takes the distance of member 0 only.
minusFirstOnly(x, other) ==
    x[1] - other[1]

\* difference_type minus(IndexSequence<I...>, other): sum of member distances.
minus(x, other) ==
    SumSeq([i \in 1..Len(x) |-> x[i] - other[i]], Len(x))

\* reference operator*() const
OperatorStar(x) ==
    Deref(x, End, 1)

\* ConcatenateIterator& operator++()
OperatorPlusPlus(x) ==
    PlusPlus(x, End, 1)

\* ConcatenateIterator& operator--()
OperatorMinusMinus(x) ==
    MinusMinus(x, Begin, End, Len(x))

\* ConcatenateIterator& operator+=(offset)
OperatorPlusIs(x, offset) ==
    PlusIs(x, End, offset, 1)

\* ConcatenateIterator& operator-=(offset)
OperatorMinIs(x, offset) ==
    MinIs(x, Begin, End, offset, Len(x))

\* difference_type operator-(other) const
OperatorMinus(x, other) ==
    minus(x, other)

\* friend bool operator!=(a, b)
OperatorNe(x, y) ==
    NotEqual(x, y, 1)

\* friend bool operator==(a, b)
OperatorEq(x, y) ==
    ~OperatorNe(x, y)

\* operator< with the operands of the subtraction exchanged: a - b > 0.
OperatorLtSwapped(x, y) ==
    OperatorMinus(x, y) > 0

\* friend bool operator<(a, b): b - a > 0
OperatorLt(x, y) ==
    OperatorMinus(y, x) > 0

\* friend bool operator>(a, b): b < a
OperatorGt(x, y) ==
    OperatorLt(y, x)

\* friend bool operator<=(a, b): !(b < a)
OperatorLe(x, y) ==
    ~OperatorLt(y, x)

\* friend bool operator>=(a, b): !(a < b)
OperatorGe(x, y) ==
    ~OperatorLt(x, y)

\* ConcatenateIterator(iterators, begin, end): the object with its three tuples.
MkIter(iterators, begin, end) ==
    [iterators |-> iterators, begin |-> begin, end |-> end]

(* The operators below return a value.  Each is given as the pair of what   *)
(* the call leaves in *this and what it returns.                            *)

\* ConcatenateIterator operator++(int): tmp(*this); ++*this; return tmp.
OperatorPostInc(o) ==
    [this |-> [o EXCEPT !.iterators = PlusPlus(o.iterators, o.end, 1)],
     ret  |-> o]

\* ConcatenateIterator operator--(int): tmp(*this); ++*this; return tmp.
OperatorPostDec(o) ==
    [this |-> [o EXCEPT !.iterators = PlusPlus(o.iterators, o.end, 1)],
     ret  |-> o]

\* operator+ that applies += to *this instead of to the copy.
OperatorPlusInPlace(o, offset) ==
    [this |-> [o EXCEPT !.iterators = PlusIs(o.iterators, o.end, offset, 1)],
     ret  |-> [o EXCEPT !.iterators = PlusIs(o.iterators, o.end, offset, 1)]]

\* ConcatenateIterator operator+(offset) const: tmp(*this); tmp += offset.
OperatorPlus(o, offset) ==
    [this |-> o,
     ret  |-> [o EXCEPT !.iterators = PlusIs(o.iterators, o.end, offset, 1)]]

\* ConcatenateIterator operator-(offset) const: tmp(*this); tmp -= offset.
OperatorMinusOffset(o, offset) ==
    [this |-> o,
     ret  |-> [o EXCEPT !.iterators =
                  MinIs(o.iterators, o.begin, o.end, offset, Len(o.iterators))]]

\* reference operator[](offset) const: *(*this + offset).
OperatorSubscript(o, offset) ==
    [this |-> OperatorPlus(o, offset).this,
     ret  |-> Deref(OperatorPlus(o, offset).ret.iterators, o.end, 1)]

-----------------------------------------------------------------------------
(* Traversal of a concatenation and operators applied to a copy.            *)

\* Largest number of operator++ calls a traversal is followed for.
StepCap ==
    MaxN * MaxLen + MaxExtra

\* No operator applied yet.
NoOp ==
    [name |-> "none", k |-> 0]

\* Nothing returned yet.
NoRet ==
    [kind |-> "none", v |-> <<>>]

ConcatInit ==
    /\ c = Begin
    /\ steps = 0
    /\ out = <<>>
    /\ a = Begin
    /\ apos = 0
    /\ op1 = NoOp
    /\ op2 = NoOp
    /\ ret = NoRet

DistIdle ==
    /\ b = Begin
    /\ bsteps = 0

CartIdle ==
    /\ cur = Begin
    /\ csteps = 0
    /\ cout = <<>>
    /\ since = [i \in 1..N |-> [j \in 1..N |-> 0]]

ViewIdle ==
    /\ view = <<>>
    /\ cx = <<>>
    /\ cy = <<>>
    /\ outx = <<>>
    /\ outy = <<>>
    /\ vret = NoRet
    /\ vlast = NoOp

CatIdle ==
    /\ tags = <<>>
    /\ ti = 0
    /\ acc = "none"

JumpIdle ==
    /\ jdir = "none"
    /\ jstart = <<>>
    /\ jk = 0
    /\ jit = <<>>
    /\ joff = 0
    /\ jI = 0
    /\ jvis = <<>>

RandIdle ==
    /\ ramount = 0
    /\ rview = [made |-> FALSE, beginPos |-> 0, endPos |-> 0, isWhileTrueLoop |-> FALSE]

\* No cursor: _currentPos, _last and whether the cursor holds a string.
NoSplit ==
    [currentPos |-> 0, last |-> 0, made |-> FALSE]

\* No accesses.
NoAcc ==
    [reads |-> {}, writes |-> {}, seed |-> {}]

SplitIdle ==
    /\ sstr = <<>>
    /\ sdelim = <<>>
    /\ sit = NoSplit
    /\ send = NoSplit
    /\ stoks = <<>>
    /\ ssteps = 0

GenIdle ==
    /\ gN = 0
    /\ gn = 0
    /\ gphase = "idle"
    /\ gk = 0
    /\ gacc = NoAcc
    /\ gwritten = {}

Init ==
    /\ lens \in LensSet
    /\ ConcatInit
    /\ DistIdle
    /\ SplitIdle /\ GenIdle
    /\ CartIdle
    /\ ViewIdle /\ CatIdle /\ JumpIdle /\ RandIdle

\* One pass of `for (; it != end; ++it) use(*it);` on c; a is a fresh copy.
Traverse ==
    /\ OperatorNe(c, End)
    /\ steps < StepCap
    /\ out' = Append(out, OperatorStar(c))
    /\ c' = OperatorPlusPlus(c)
    /\ steps' = steps + 1
    /\ a' = c'
    /\ apos' = steps'
    /\ op1' = NoOp
    /\ op2' = NoOp
    /\ ret' = NoRet
    /\ UNCHANGED <<lens, distVars, cartVars, extVars>>

\* No member cursor precedes its begin or passes its end.
InBounds(x) ==
    \A i \in 1..Len(x) : Begin[i] <= x[i] /\ x[i] <= End[i]

\* Notes the operator applied to a in the first free slot (at most two).  The
\* operators are applied only while InBounds(a): moving or reading a member
\* cursor outside its sequence is undefined, and nothing is modelled after it.
Record(name, k) ==
    /\ op2 = NoOp
    /\ IF op1 = NoOp
       THEN op1' = [name |-> name, k |-> k] /\ op2' = op2
       ELSE op2' = [name |-> name, k |-> k] /\ op1' = op1

\* ++a on the copy, asked only while an element remains.
StepForward ==
    /\ InBounds(a)
    /\ apos < Total
    /\ Record("++", 1)
    /\ a' = OperatorPlusPlus(a)
    /\ apos' = apos + 1
    /\ UNCHANGED <<lens, c, steps, out, ret, distVars, cartVars, extVars>>

\* --a on the copy, asked only after the first position.
StepBackward ==
    /\ InBounds(a)
    /\ apos > 0
    /\ Record("--", 1)
    /\ a' = OperatorMinusMinus(a)
    /\ apos' = apos - 1
    /\ UNCHANGED <<lens, c, steps, out, ret, distVars, cartVars, extVars>>

\* a += k on the copy, for an offset that stays within the concatenation.
JumpForward ==
    \E k \in 0..(Total - apos) :
        /\ InBounds(a)
        /\ Record("+=", k)
        /\ a' = OperatorPlusIs(a, k)
        /\ apos' = apos + k
        /\ UNCHANGED <<lens, c, steps, out, ret, distVars, cartVars, extVars>>

\* a -= k on the copy, for an offset that stays within the concatenation.
JumpBackward ==
    \E k \in 0..apos :
        /\ InBounds(a)
        /\ Record("-=", k)
        /\ a' = OperatorMinIs(a, k)
        /\ apos' = apos - k
        /\ UNCHANGED <<lens, c, steps, out, ret, distVars, cartVars, extVars>>

\* a-- on a fresh copy, asked only after the first position; ret is the
\* cursor the call returned.
PostDecrement ==
    /\ op1 = NoOp
    /\ InBounds(a)
    /\ apos > 0
    /\ Record("--(int)", 1)
    /\ a' = OperatorPostDec(MkIter(a, Begin, End)).this.iterators
    /\ ret' = [kind |-> "cursor",
               v |-> OperatorPostDec(MkIter(a, Begin, End)).ret.iterators]
    /\ apos' = apos - 1
    /\ UNCHANGED <<lens, c, steps, out, distVars, cartVars, extVars>>

\* a[k] on a fresh copy, for an offset that names a remaining element; ret is
\* the element the call returned.
Subscript ==
    \E k \in 0..(Total - apos - 1) :
        /\ op1 = NoOp
        /\ InBounds(a)
        /\ Record("[]", k)
        /\ a' = OperatorSubscript(MkIter(a, Begin, End), k).this.iterators
        /\ ret' = [kind |-> "value",
                   v |-> OperatorSubscript(MkIter(a, Begin, End), k).ret]
        /\ UNCHANGED <<lens, c, steps, out, apos, distVars, cartVars, extVars>>

Next ==
    \/ Traverse
    \/ StepForward
    \/ StepBackward
    \/ JumpForward
    \/ JumpBackward
    \/ PostDecrement
    \/ Subscript

Spec ==
    Init /\ [][Next]_vars

-----------------------------------------------------------------------------
(* Claims about the concatenation cursor.                                   *)

RECURSIVE Flatten(_, _)
\* The elements of members i..N, member after member, each in its own order.
Flatten(L, i) ==
    IF i > Len(L) THEN <<>>
    ELSE [p \in 1..L[i] |-> <<i, p - 1>>] \o Flatten(L, i + 1)

\* Every element of the member sequences in concatenation order.
AllElems ==
    Flatten(lens, 1)

\* The first member, scanning from index 0, whose cursor is not at its end.
FirstLive(x) ==
    CHOOSE i \in 1..N : x[i] # End[i] /\ \A j \in 1..(i - 1) : x[j] = End[j]

\* C1 (concatenation ordering): dereferencing and stepping c from begin yields
\* the members' elements member after member, in order, nothing skipped or
\* repeated; once c equals end every element was yielded; and operator*
\* returns the value at the first member whose cursor is not at its end.
C1_ConcatOrdering ==
    /\ Len(out) = steps
    /\ Len(out) <= Len(AllElems)
    /\ out = SubSeq(AllElems, 1, Len(out))
    /\ OperatorEq(c, End) => out = AllElems
    /\ OperatorNe(c, End) => OperatorStar(c) = Star(FirstLive(c), c[FirstLive(c)])

\* C1 witness: a traversal that crossed an empty member between two non-empty
\* ones and reached end.
C1_Witness ==
    /\ N = 3
    /\ lens[1] = 2 /\ lens[2] = 0 /\ lens[3] = 2
    /\ OperatorEq(c, End)
    /\ Len(out) = 4

\* C2 (concatenation exhaustion count): c equals end after exactly
\* L0 + ... + L(N-1) step-forwards from begin and after no smaller number.
C2_ExhaustionCount ==
    /\ steps < Total => OperatorNe(c, End)
    /\ steps = Total => OperatorEq(c, End)
    /\ steps <= Total

\* C2 witness: end reached after the sum of three lengths, one of them zero.
C2_Witness ==
    /\ N = 3
    /\ lens[1] = 0 /\ lens[2] = 2 /\ lens[3] = 1
    /\ steps = 3
    /\ OperatorEq(c, End)

RECURSIVE StepN(_, _)
\* x after k calls of operator++.
StepN(x, k) ==
    IF k = 0 THEN x ELSE StepN(OperatorPlusPlus(x), k - 1)

\* C3 (round trip of jump-forward against stepping): one c += k on a copy of a
\* cursor reached by stepping, 0 <= k <= elements remaining, equals member by
\* member the cursor reached by k step-forwards.
C3_JumpEqualsSteps ==
    (op1.name = "+=" /\ op2 = NoOp) => a = StepN(c, op1.k)

\* C4 (jump symmetry): (c += k) -= k returns to c for k within the elements
\* remaining, and (c -= k) += k returns to c for k within the elements consumed.
C4_JumpSymmetry ==
    /\ (op1.name = "+=" /\ op2.name = "-=" /\ op1.k = op2.k) => a = c
    /\ (op1.name = "-=" /\ op2.name = "+=" /\ op1.k = op2.k) => a = c

\* C6 (member bounds): after any steps and jumps whose requested position
\* stays within 0..total length, begin[i] <= current[i] <= end[i] for every
\* member.
C6_MemberBounds ==
    /\ 0 <= apos /\ apos <= Total
    /\ InBounds(c)
    /\ InBounds(a)

\* Member-wise equality of two cursor groups.
Pairwise(x, y) ==
    \A i \in 1..N : x[i] = y[i]

\* C7 (equality): operator== holds iff every pair of corresponding member
\* cursors is equal, and operator!= is its negation, whichever member the
\* short-circuit scan stops at.
C7_Equality ==
    \A x \in {c, a} : \A y \in {c, a, Begin, End} :
        /\ OperatorEq(x, y) <=> Pairwise(x, y)
        /\ OperatorNe(x, y) <=> ~Pairwise(x, y)
        /\ OperatorNe(x, y) <=> ~OperatorEq(x, y)

\* C7 witness: after --a the copy agrees with c on the first member and
\* differs on a later one, and the two compare unequal.
C7_Witness ==
    /\ N >= 2
    /\ op1.name = "--" /\ op2 = NoOp
    /\ a[1] = c[1] /\ c[1] # 0
    /\ a # c
    /\ OperatorNe(c, a)
    /\ ~OperatorEq(c, a)

RECURSIVE BackN(_, _)
\* x after k calls of operator--.
BackN(x, k) ==
    IF k = 0 THEN x ELSE BackN(OperatorMinusMinus(x), k - 1)

\* C16 (jump-backward agrees with stepping backward): one c -= k on a copy of
\* a cursor reached by stepping, 0 <= k <= elements consumed, equals member by
\* member the cursor reached by k step-backwards.
C16_JumpBackEqualsSteps ==
    (op1.name = "-=" /\ op2 = NoOp) => a = BackN(c, op1.k)

\* The members 0..j-1 of x are all at their end.
Exhausted(x, j) ==
    \A m \in 1..j : x[m] = End[m]

\* C17 (monotonic exhaustion): a step-forward changes exactly one member
\* cursor, the lowest-indexed one not at its end; the element dereferenced
\* before the step is read from that member; and a member whose whole prefix
\* is exhausted is neither changed nor read.
C17_MonotonicExhaustion ==
    [][/\ Traverse =>
           /\ c' = [c EXCEPT ![FirstLive(c)] = @ + 1]
           /\ out'[Len(out')] = Star(FirstLive(c), c[FirstLive(c)])
           /\ \A j \in 1..N : Exhausted(c, j) =>
                  /\ c'[j] = c[j]
                  /\ out'[Len(out')][1] > j
                  /\ Exhausted(c', j)
       /\ (StepForward /\ op1 = NoOp) =>
           /\ a' = [a EXCEPT ![FirstLive(a)] = @ + 1]
           /\ \A j \in 1..N : Exhausted(a, j) => a'[j] = a[j]]_vars

\* C17 witness: member 0 exhausted, an empty member 1 skipped, and the cursor
\* stepped on inside member 2 while members 0 and 1 stayed at their ends.
C17_Witness ==
    /\ N = 3
    /\ lens[1] = 1 /\ lens[2] = 0 /\ lens[3] = 2
    /\ steps = 2
    /\ c[1] = End[1] /\ c[2] = End[2] /\ c[3] = 1
    /\ out[2] = Star(3, 0)

\* C18 (step-backward inverts step-forward): on a copy of a cursor reached by
\* stepping, ++ then -- (cursor not at end) and -- then ++ (cursor not at the
\* begin state) both return the cursor, zero-length members included.
C18_StepInverse ==
    /\ (op1.name = "++" /\ op2.name = "--") => a = c
    /\ (op1.name = "--" /\ op2.name = "++") => a = c
    /\ (op1.name = "++" /\ op2 = NoOp) => OperatorMinusMinus(a) = c
    /\ (op1.name = "--" /\ op2 = NoOp) => OperatorPlusPlus(a) = c

\* C18 witness: -- then ++ from the first element of member 2, carried back
\* over the empty member 1 into member 0 and forward again.
C18_Witness ==
    /\ N = 3
    /\ lens[1] = 1 /\ lens[2] = 0 /\ lens[3] = 1
    /\ steps = 1
    /\ op1.name = "--" /\ op2.name = "++"
    /\ a = c

\* C19 (postfix decrement): c-- on a cursor not at the begin state returns the
\* cursor as it was before the call and leaves c where --c would leave it.
C19_PostfixDecrement ==
    op1.name = "--(int)" =>
        /\ ret.kind = "cursor"
        /\ ret.v = c
        /\ a = OperatorMinusMinus(c)

\* C20 (subscript): c[k], 0 <= k < elements remaining, returns the element
\* that dereferencing after k step-forwards returns, and leaves c unchanged.
C20_Subscript ==
    op1.name = "[]" =>
        /\ ret.kind = "value"
        /\ ret.v = OperatorStar(StepN(c, op1.k))
        /\ a = c

-----------------------------------------------------------------------------
(* Distance between two cursors of one traversal.                           *)

\* ++c with no loop condition around it: at end it changes nothing.
DistStep ==
    /\ steps < Total + MaxExtra
    /\ c' = OperatorPlusPlus(c)
    /\ steps' = steps + 1
    /\ UNCHANGED <<lens, out, a, apos, op1, op2, ret, distVars, cartVars, extVars>>

\* b = c: the cursor is copied and c goes on.
Save ==
    /\ b' = c
    /\ bsteps' = steps
    /\ UNCHANGED <<lens, concatVars, cartVars, extVars>>

DistNext ==
    \/ DistStep
    \/ Save

SpecDist ==
    Init /\ [][DistNext]_vars

\* C5 as stated (distance consistency): with c reached from b by d = steps -
\* bsteps step-forward operations, c - b = d and b - c = -d.
C5_DistanceAsStated ==
    /\ OperatorMinus(c, b) = steps - bsteps
    /\ OperatorMinus(b, c) = -(steps - bsteps)

\* C5 as amended: the same, when none of the d step-forwards was applied to a
\* cursor already equal to end (there operator++ changes nothing).
C5_Distance ==
    steps <= Total => C5_DistanceAsStated

\* C5 witness: b saved after one step, c two steps further across an empty
\* member, distances 2 and -2.
C5_Witness ==
    /\ N = 3
    /\ lens[1] = 2 /\ lens[2] = 0 /\ lens[3] = 1
    /\ bsteps = 1 /\ steps = 3
    /\ b[3] # c[3]
    /\ OperatorMinus(c, b) = 2
    /\ OperatorMinus(b, c) = -2

\* C21 (step-forward at the end state is a no-op): operator++ on a cursor
\* whose every member equals its end changes no member, so the cursor stays
\* equal to end after any number of further step-forwards.
C21_EndNoOp ==
    /\ Pairwise(c, End) =>
           /\ OperatorPlusPlus(c) = c
           /\ \A k \in 1..StepCap : StepN(c, k) = c /\ OperatorEq(StepN(c, k), End)
    /\ steps >= Total => Pairwise(c, End) /\ OperatorEq(c, End)

\* C21 witness: three members, not all empty, and operator++ applied again
\* after the cursor had reached end.
C21_Witness ==
    /\ N = 3
    /\ Total >= 2
    /\ steps = Total + MaxExtra
    /\ Pairwise(c, End)

\* The four comparisons of x and y agree with the order of the step counts i
\* and j, and exactly one of x < y, x == y, x > y holds.
OrderedAs(x, i, y, j) ==
    /\ OperatorLt(x, y) <=> i < j
    /\ OperatorGt(x, y) <=> i > j
    /\ OperatorLe(x, y) <=> i <= j
    /\ OperatorGe(x, y) <=> i >= j
    /\ Cardinality({r \in {"lt", "eq", "gt"} :
           \/ r = "lt" /\ OperatorLt(x, y)
           \/ r = "eq" /\ OperatorEq(x, y)
           \/ r = "gt" /\ OperatorGt(x, y)}) = 1

\* C13 as stated (ordering from distance sign): for b reached by bsteps and c
\* by steps step-forwards from begin, <, >, <=, >= compare the cursors as the
\* step counts compare, and exactly one of <, ==, > holds.
C13_OrderingAsStated ==
    /\ OrderedAs(b, bsteps, c, steps)
    /\ OrderedAs(c, steps, b, bsteps)

\* C13 as amended: the same, when no step-forward was applied to a cursor
\* already equal to end (both step counts within the total length).
C13_Ordering ==
    steps <= Total => C13_OrderingAsStated

\* C13 witness: b saved after one step, c two steps further across an empty
\* member; b < c, b <= c, c > b, c >= b and none of the converses.
C13_Witness ==
    /\ N = 3
    /\ lens[1] = 2 /\ lens[2] = 0 /\ lens[3] = 1
    /\ bsteps = 1 /\ steps = 3
    /\ OperatorLt(b, c) /\ OperatorLe(b, c)
    /\ OperatorGt(c, b) /\ OperatorGe(c, b)
    /\ ~OperatorLt(c, b) /\ ~OperatorGe(b, c)

-----------------------------------------------------------------------------
(* A view over a concatenation and cursors copied out of it.  The view is   *)
(* built as CartesianProduct.hpp builds its own: iterator(begin, begin, end) *)
(* and iterator(end, begin, end), stored in the view base.                   *)

\* The two cursors the view stores.
ViewMake ==
    [begin |-> MkIter(Begin, Begin, End), end |-> MkIter(End, Begin, End)]

\* The start accessor: a fresh copy of the stored begin cursor.
ViewBegin(v) ==
    v.begin

\* The end accessor: a copy of the stored end cursor.
ViewEnd(v) ==
    v.end

ViewInit ==
    /\ lens \in LensSet
    /\ ConcatInit
    /\ DistIdle
    /\ SplitIdle /\ GenIdle
    /\ CartIdle
    /\ view = ViewMake
    /\ cx = ViewBegin(view)
    /\ cy = ViewBegin(view)
    /\ outx = <<>>
    /\ outy = <<>>
    /\ vret = NoRet
    /\ vlast = NoOp
    /\ CatIdle /\ JumpIdle /\ RandIdle

\* it != view.end() for a cursor object copied out of the view.
ViewMore(o) ==
    NotEqual(o.iterators, ViewEnd(view).iterators, 1)

\* use(*cx); ++cx;
ViewStepX ==
    /\ ViewMore(cx)
    /\ outx' = Append(outx, Deref(cx.iterators, cx.end, 1))
    /\ cx' = [cx EXCEPT !.iterators = PlusPlus(cx.iterators, cx.end, 1)]
    /\ vlast' = [name |-> "++", k |-> 1]
    /\ vret' = NoRet
    /\ UNCHANGED <<lens, concatVars, distVars, cartVars, view, cy, outy,
                   catVars, jumpVars, randVars,
                   splitVars, genVars>>

\* use(*cx++);
ViewPostIncX ==
    /\ ViewMore(cx)
    /\ cx' = OperatorPostInc(cx).this
    /\ vret' = [kind |-> "cursor", v |-> OperatorPostInc(cx).ret]
    /\ outx' = Append(outx, Deref(vret'.v.iterators, vret'.v.end, 1))
    /\ vlast' = [name |-> "++(int)", k |-> 1]
    /\ UNCHANGED <<lens, concatVars, distVars, cartVars, view, cy, outy,
                   catVars, jumpVars, randVars,
                   splitVars, genVars>>

\* use(*cy); ++cy;
ViewStepY ==
    /\ ViewMore(cy)
    /\ outy' = Append(outy, Deref(cy.iterators, cy.end, 1))
    /\ cy' = [cy EXCEPT !.iterators = PlusPlus(cy.iterators, cy.end, 1)]
    /\ vlast' = [name |-> "++y", k |-> 1]
    /\ vret' = NoRet
    /\ UNCHANGED <<lens, concatVars, distVars, cartVars, view, cx, outx,
                   catVars, jumpVars, randVars,
                   splitVars, genVars>>

\* r = cx + k, for an offset within the elements remaining at cx.
ViewPlusX ==
    \E k \in 0..(Total - Len(outx)) :
        /\ cx' = OperatorPlus(cx, k).this
        /\ vret' = [kind |-> "cursor", v |-> OperatorPlus(cx, k).ret]
        /\ vlast' = [name |-> "+", k |-> k]
        /\ UNCHANGED <<lens, concatVars, distVars, cartVars, view, cy, outx, outy,
                       catVars, jumpVars, randVars,
                   splitVars, genVars>>

\* r = cx - k, for an offset within the elements cx has consumed.
ViewMinusX ==
    \E k \in 0..Len(outx) :
        /\ cx' = OperatorMinusOffset(cx, k).this
        /\ vret' = [kind |-> "cursor", v |-> OperatorMinusOffset(cx, k).ret]
        /\ vlast' = [name |-> "-", k |-> k]
        /\ UNCHANGED <<lens, concatVars, distVars, cartVars, view, cy, outx, outy,
                       catVars, jumpVars, randVars,
                   splitVars, genVars>>

\* r = cx[k], for an offset that names an element remaining at cx.
ViewSubscriptX ==
    \E k \in 0..(Total - Len(outx) - 1) :
        /\ cx' = OperatorSubscript(cx, k).this
        /\ vret' = [kind |-> "value", v |-> OperatorSubscript(cx, k).ret]
        /\ vlast' = [name |-> "[]", k |-> k]
        /\ UNCHANGED <<lens, concatVars, distVars, cartVars, view, cy, outx, outy,
                       catVars, jumpVars, randVars,
                   splitVars, genVars>>

\* r += 1 on the cursor a value-returning operator returned, while it has a
\* member left to move within.
ViewJumpRet ==
    /\ vret.kind = "cursor"
    /\ vlast.name \in {"+", "-", "++(int)"}
    /\ InBounds(vret.v.iterators)
    /\ NotEqual(vret.v.iterators, vret.v.end, 1)
    /\ vret' = [vret EXCEPT !.v.iterators = PlusIs(@, vret.v.end, 1, 1)]
    /\ vlast' = [name |-> "r+=", k |-> 1]
    /\ UNCHANGED <<lens, concatVars, distVars, cartVars, view, cx, cy, outx, outy,
                   catVars, jumpVars, randVars,
                   splitVars, genVars>>

ViewNext ==
    \/ ViewStepX
    \/ ViewPostIncX
    \/ ViewStepY
    \/ ViewPlusX
    \/ ViewMinusX
    \/ ViewSubscriptX
    \/ ViewJumpRet

SpecView ==
    ViewInit /\ [][ViewNext]_vars

\* The cursor a traversal run alone holds after n steps from the view's begin.
Alone(n) ==
    MkIter(StepN(Begin, n), Begin, End)

\* C11 (independent traversals): the cursors stored in the view never change;
\* each cursor copy is where its own steps alone put it, whatever was done to
\* the other copy and whatever c + k, c - k, c[k] or c++ returned; and each
\* of two interleaved traversals has read the elements it reads when run
\* alone.
C11_IndependentTraversals ==
    /\ view = ViewMake
    /\ cx = Alone(Len(outx))
    /\ cy = Alone(Len(outy))
    /\ outx = SubSeq(AllElems, 1, Len(outx))
    /\ outy = SubSeq(AllElems, 1, Len(outy))
    /\ vlast.name = "++(int)" => vret.v = Alone(Len(outx) - 1)

\* C11 witness: two traversals at different positions past the first
\* element, and cx + k with k >= 1 returned a cursor that differs from cx.
C11_Witness ==
    /\ N >= 2
    /\ Len(outx) >= 1 /\ Len(outy) >= 1
    /\ Len(outx) # Len(outy)
    /\ vlast.name = "+" /\ vlast.k >= 1
    /\ vret.v # cx
    /\ cx = Alone(Len(outx))

-----------------------------------------------------------------------------
(* iterator_category of the concatenation cursor:                           *)
(* std::common_type<IterCat<Iterators>...>::type, folded left to right.      *)

\* The capability tags a member cursor type can declare.
Tags ==
    {"Forward", "Bidirectional", "RandomAccess"}

\* The tag types a tag type derives from, itself included:
\* random_access_iterator_tag : bidirectional_iterator_tag :
\* forward_iterator_tag.
Bases(t) ==
    CASE t = "Forward" -> {"Forward"}
      [] t = "Bidirectional" -> {"Bidirectional", "Forward"}
      [] t = "RandomAccess" -> {"RandomAccess", "Bidirectional", "Forward"}
      [] OTHER -> {}

\* An object of tag type from converts implicitly to tag type to.
Convertible(from, to) ==
    to \in Bases(from)

\* The conditional operator resolved towards the derived type.
CommonTypeDerived(t1, t2) ==
    IF t1 = t2 THEN t1
    ELSE IF Convertible(t1, t2) /\ ~Convertible(t2, t1) THEN t1
    ELSE IF Convertible(t2, t1) /\ ~Convertible(t1, t2) THEN t2
    ELSE "none"

\* std::common_type<T1, T2>::type: the type of `false ? T1 : T2`, which is the
\* one type the other converts to.
CommonType2(t1, t2) ==
    IF t1 = t2 THEN t1
    ELSE IF Convertible(t1, t2) /\ ~Convertible(t2, t1) THEN t2
    ELSE IF Convertible(t2, t1) /\ ~Convertible(t1, t2) THEN t1
    ELSE "none"

CatInit ==
    /\ lens = <<>>
    /\ ConcatInit
    /\ DistIdle
    /\ SplitIdle /\ GenIdle
    /\ CartIdle
    /\ ViewIdle
    /\ tags \in UNION {[1..n -> Tags] : n \in 1..MaxN}
    /\ ti = 1
    /\ acc = tags[1]
    /\ JumpIdle /\ RandIdle

\* common_type<T1, T2, R...> is common_type<common_type<T1, T2>::type, R...>.
Fold ==
    /\ ti < Len(tags)
    /\ acc' = CommonType2(acc, tags[ti + 1])
    /\ ti' = ti + 1
    /\ UNCHANGED <<lens, concatVars, distVars, cartVars, viewVars, tags,
                   jumpVars, randVars,
                   splitVars, genVars>>

CatNext ==
    \/ Fold

SpecCat ==
    CatInit /\ [][CatNext]_vars

\* Forward < Bidirectional < RandomAccess.
Rank ==
    [Forward |-> 1, Bidirectional |-> 2, RandomAccess |-> 3]

\* The weakest of the first n tags.
Weakest(n) ==
    CHOOSE t \in {tags[i] : i \in 1..n} : \A i \in 1..n : Rank[t] <= Rank[tags[i]]

\* C12 (weakest-link capability): the declared iterator_category is the
\* minimum of the members' tags under Forward < Bidirectional <
\* RandomAccess, and is RandomAccess only when every member is RandomAccess.
C12_WeakestLink ==
    /\ acc \in Tags
    /\ acc = Weakest(ti)
    /\ acc = "RandomAccess" <=> \A i \in 1..ti : tags[i] = "RandomAccess"

\* C12 witness: three members, the weakest in the middle, all folded.
C12_Witness ==
    /\ Len(tags) = 3 /\ ti = 3
    /\ tags[1] = "RandomAccess" /\ tags[2] = "Forward" /\ tags[3] = "Bidirectional"
    /\ acc = "Forward"

-----------------------------------------------------------------------------
(* The recursions of PlusIs and MinIs unfolded, one instantiation a step.   *)

\* The body of PlusIs<Tuple, I>: what it leaves in the cursor, and either the
\* return (done) or the call of PlusIs<Tuple, I + 1> with its offset.
PlusIsStep(iterators, end, offset, I) ==
    IF I = Len(iterators)
    THEN [it |-> iterators, off |-> offset, I |-> I, done |-> TRUE]
    ELSE LET dist == end[I] - iterators[I]
         IN  IF dist > offset
             THEN [it |-> [iterators EXCEPT ![I] = @ + offset],
                   off |-> offset, I |-> I, done |-> TRUE]
             ELSE [it |-> [iterators EXCEPT ![I] = @ + dist],
                   off |-> offset - dist, I |-> I + 1, done |-> FALSE]

\* MinIs<Tuple, I> that, on a zero distance, calls itself again with the
\* offset as it was instead of moving on with the offset bumped to one.
MinIsStepRetry(iterators, begin, end, offset, I) ==
    IF I = 1
    THEN [it |-> [iterators EXCEPT ![1] = @ - offset],
          off |-> offset, I |-> I, done |-> TRUE]
    ELSE IF iterators[I] = begin[I]
         THEN [it |-> iterators, off |-> offset, I |-> I - 1, done |-> FALSE]
         ELSE LET dist == end[I] - iterators[I]
              IN  IF dist <= offset
                  THEN IF dist = 0
                       THEN [it |-> iterators, off |-> offset, I |-> I,
                             done |-> FALSE]
                       ELSE [it |-> [iterators EXCEPT ![I] = begin[I]],
                             off |-> offset - dist, I |-> I - 1, done |-> FALSE]
                  ELSE [it |-> [iterators EXCEPT ![I] = @ - offset],
                        off |-> offset, I |-> I, done |-> TRUE]

\* The body of MinIs<Tuple, I>: what it leaves in the cursor, and either the
\* return (done) or the call of MinIs<Tuple, I - 1> with its offset.
MinIsStep(iterators, begin, end, offset, I) ==
    IF I = 1
    THEN [it |-> [iterators EXCEPT ![1] = @ - offset],
          off |-> offset, I |-> I, done |-> TRUE]
    ELSE IF iterators[I] = begin[I]
         THEN [it |-> iterators, off |-> offset, I |-> I - 1, done |-> FALSE]
         ELSE LET dist == end[I] - iterators[I]
              IN  IF dist <= offset
                  THEN [it |-> [iterators EXCEPT ![I] = begin[I]],
                        off |-> IF dist = 0 THEN 1 ELSE offset - dist,
                        I |-> I - 1, done |-> FALSE]
                  ELSE [it |-> [iterators EXCEPT ![I] = @ - offset],
                        off |-> offset, I |-> I, done |-> TRUE]

JumpInit ==
    /\ lens \in LensSet
    /\ ConcatInit
    /\ DistIdle
    /\ SplitIdle /\ GenIdle
    /\ CartIdle
    /\ ViewIdle /\ CatIdle /\ JumpIdle /\ RandIdle

\* operator+= or operator-= is called with offset k on a cursor reached by p
\* steps; the first instantiation is PlusIs<Tuple, 0> or
\* MinIs<Tuple, sizeof...(Iterators) - 1>.
JumpCall ==
    \E d \in {"+=", "-="}, p \in 0..Total, k \in 0..(Total + MaxExtra) :
        /\ jdir = "none"
        /\ jdir' = d
        /\ jstart' = StepN(Begin, p)
        /\ jk' = k
        /\ jit' = jstart'
        /\ joff' = k
        /\ jI' = IF d = "+=" THEN 1 ELSE N
        /\ jvis' = <<jI'>>
        /\ UNCHANGED <<lens, concatVars, distVars, cartVars, viewVars, catVars,
                       randVars,
                   splitVars, genVars>>

\* The running instantiation did r: it returned, or it called the next one.
JumpDid(r) ==
    /\ jit' = r.it
    /\ joff' = r.off
    /\ jI' = IF r.done THEN 0 ELSE r.I
    /\ jvis' = IF r.done THEN jvis ELSE Append(jvis, r.I)
    /\ UNCHANGED <<lens, concatVars, distVars, cartVars, viewVars, catVars,
                   jdir, jstart, jk, randVars,
                   splitVars, genVars>>

\* One instantiation of PlusIs runs.
PlusIsCall ==
    /\ jdir = "+="
    /\ jI # 0
    /\ JumpDid(PlusIsStep(jit, End, joff, jI))

\* One instantiation of MinIs runs.
MinIsCall ==
    /\ jdir = "-="
    /\ jI # 0
    /\ JumpDid(MinIsStep(jit, Begin, End, joff, jI))

JumpNext ==
    \/ JumpCall
    \/ PlusIsCall
    \/ MinIsCall

\* A called instantiation runs: the code is sequential and nothing suspends it.
SpecJump ==
    JumpInit /\ [][JumpNext]_vars /\ WF_vars(PlusIsCall) /\ WF_vars(MinIsCall)

\* What the running instantiation is about to do.
JumpPending ==
    IF jdir = "+=" THEN PlusIsStep(jit, End, joff, jI)
    ELSE MinIsStep(jit, Begin, End, joff, jI)

\* No member index is instantiated twice; a running instantiation either
\* returns or calls one for a member index not visited yet; and the jump that
\* returned left what the recursion computes.
VisitsOnce ==
    /\ Len(jvis) <= N
    /\ \A i, j \in 1..Len(jvis) : i # j => jvis[i] # jvis[j]
    /\ jdir # "none" => jvis # <<>>
    /\ jI # 0 =>
           /\ jI \in 1..N /\ jI = jvis[Len(jvis)]
           /\ \/ JumpPending.done
              \/ /\ JumpPending.I \in 1..N
                 /\ \A i \in 1..Len(jvis) : jvis[i] # JumpPending.I
    /\ (jI = 0 /\ jdir # "none") =>
           jit = IF jdir = "+=" THEN OperatorPlusIs(jstart, jk)
                                ELSE OperatorMinIs(jstart, jk)

\* C14 (jump termination): c += k and c -= k return, for every combination
\* of member lengths, zero-length members and members at a boundary
\* included, and every offset k >= 0; the member-by-member recursion visits
\* each member index at most once.
C14_JumpTermination ==
    []VisitsOnce /\ ((jdir # "none") ~> (jI = 0))

\* C14 witness: c -= 0 from the end of three non-empty members returned
\* after visiting members 2, 1, 0, the distance being zero (and the offset
\* bumped) at members 2 and 1.
C14_Witness ==
    /\ N = 3
    /\ \A i \in 1..3 : lens[i] >= 1
    /\ jdir = "-=" /\ jk = 0
    /\ jstart = End
    /\ jI = 0
    /\ jvis = <<3, 2, 1>>

-----------------------------------------------------------------------------
(* random(distribution, generator, amount) of Random.hpp.                   *)

\* (std::numeric_limits<std::size_t>::max)()
SizeMax ==
    2 ^ SizeBits - 1

\* The largest std::ptrdiff_t.
PtrdiffMax ==
    2 ^ (SizeBits - 1) - 1

\* static_cast<std::ptrdiff_t>(u) of a std::size_t u: the value congruent to
\* u modulo 2^SizeBits in the range of std::ptrdiff_t.
StaticCastPtrdiff(u) ==
    IF u <= PtrdiffMax THEN u ELSE u - 2 ^ SizeBits

\* Random::Random(distribution, generator, amount, isWhileTrueLoop): the view
\* stores iterator(.., 0, isWhileTrueLoop) and
\* iterator(.., amount, isWhileTrueLoop).
RandomCtor(amount, isWhileTrueLoop) ==
    [made |-> TRUE, beginPos |-> 0, endPos |-> amount,
     isWhileTrueLoop |-> isWhileTrueLoop]

\* random(distribution, generator, amount)
random(amount) ==
    RandomCtor(StaticCastPtrdiff(amount), amount = SizeMax)

RandInit ==
    /\ lens = <<>>
    /\ ConcatInit
    /\ DistIdle
    /\ SplitIdle /\ GenIdle
    /\ CartIdle
    /\ ViewIdle /\ CatIdle /\ JumpIdle /\ RandIdle

\* random(distribution, generator, amount) with an amount given.
RandomCall ==
    \E amount \in 0..SizeMax :
        /\ ~rview.made
        /\ ramount' = amount
        /\ rview' = random(amount)
        /\ UNCHANGED <<lens, concatVars, distVars, cartVars, viewVars, catVars,
                       jumpVars,
                   splitVars, genVars>>

\* random(distribution, generator): the default argument is the amount.
RandomCallDefault ==
    /\ ~rview.made
    /\ ramount' = SizeMax
    /\ rview' = random(SizeMax)
    /\ UNCHANGED <<lens, concatVars, distVars, cartVars, viewVars, catVars,
                   jumpVars,
                   splitVars, genVars>>

RandNext ==
    \/ RandomCall
    \/ RandomCallDefault

SpecRandom ==
    RandInit /\ [][RandNext]_vars

\* C15 (random view bounds): the view random() returns has its begin cursor
\* at position 0 and its end cursor at position amount, and is marked as a
\* while-true loop iff amount is omitted or the maximum std::size_t; for
\* every other amount it is bounded by amount.
C15_RandomBounds ==
    rview.made =>
        /\ rview.beginPos = 0
        /\ rview.isWhileTrueLoop <=> ramount = SizeMax
        /\ ~rview.isWhileTrueLoop => rview.endPos = ramount

-----------------------------------------------------------------------------
(* SplitIterator.  A string is a sequence of characters; the character at   *)
(* the C++ position i is the sequence's entry i + 1.                         *)

\* The character '\0'.
Nul ==
    "NUL"

\* The characters strings are made of.
Chars ==
    {"a", "b", Nul}

\* std::string::npos, the largest std::size_t.
Npos ==
    2 ^ SizeBits - 1

\* Every string of at most n characters.
StringsUpTo(n) ==
    UNION {[1..m -> Chars] : m \in 0..n}

\* std::string::find(delimiter, pos): the first position at or after pos
\* where delimiter occurs in str, npos when there is none.
Find(str, delimiter, pos) ==
    LET found == {i \in pos..(Len(str) - Len(delimiter)) :
                     SubSeq(str, i + 1, i + Len(delimiter)) = delimiter}
    IN  IF found = {} THEN Npos
        ELSE CHOOSE i \in found : \A j \in found : i <= j

\* SubString(ptr, count): count characters from position pos.
SubStringCount(str, pos, count) ==
    SubSeq(str, pos + 1, pos + count)

\* The characters of str from position pos to its end.
SubStringToLength(str, pos) ==
    SubSeq(str, pos + 1, Len(str))

\* SubString(ptr): the characters from position pos up to the first '\0';
\* the string's buffer has one at position Len(str).
SubStringCStr(str, pos) ==
    LET nuls == {i \in pos..(Len(str) - 1) : str[i + 1] = Nul} \cup {Len(str)}
    IN  SubSeq(str, pos + 1, CHOOSE i \in nuls : \A j \in nuls : i <= j)

\* SplitIterator(startingPosition, string, delimiter): _last is searched
\* only for startingPosition == 0 and is 0 otherwise.
SplitIterator(startingPosition, str, delimiter) ==
    [currentPos |-> startingPosition,
     last |-> IF startingPosition = 0 THEN Find(str, delimiter, startingPosition)
              ELSE 0,
     made |-> TRUE]

\* value_type operator*() const
SplitStar(o, str) ==
    IF o.last # Npos
    THEN SubStringCount(str, o.currentPos, o.last - o.currentPos)
    ELSE SubStringCStr(str, o.currentPos)

\* friend bool operator!=(a, b): the positions differ.
SplitNe(o1, o2) ==
    o1.currentPos # o2.currentPos

\* friend bool operator==(a, b)
SplitEq(o1, o2) ==
    ~SplitNe(o1, o2)

\* operator++ that moves to the delimiter found and not past it.
SplitPlusPlusOntoDelimiter(o, str, delimiter) ==
    LET delimLen == Len(delimiter)
        stringLen == Len(str)
    IN  IF o.last = Npos
        THEN [o EXCEPT !.currentPos = stringLen]
        ELSE IF o.last = (stringLen - delimLen) % (2 ^ SizeBits)
        THEN [o EXCEPT !.last = Npos, !.currentPos = stringLen]
        ELSE [o EXCEPT !.currentPos = o.last,
                       !.last = Find(str, delimiter, o.last)]

\* SplitIterator& operator++(); stringLen - delimLen is a std::size_t.
SplitPlusPlus(o, str, delimiter) ==
    LET delimLen == Len(delimiter)
        stringLen == Len(str)
    IN  IF o.last = Npos
        THEN [o EXCEPT !.currentPos = stringLen]
        ELSE IF o.last = (stringLen - delimLen) % (2 ^ SizeBits)
        THEN [o EXCEPT !.last = Npos, !.currentPos = stringLen]
        ELSE [o EXCEPT !.currentPos = o.last + delimLen,
                       !.last = Find(str, delimiter, o.last + delimLen)]

\* The view's begin cursor: start position 0.
SplitBegin(str, delimiter) ==
    SplitIterator(0, str, delimiter)

\* The view's end cursor: start position length(s).
SplitEnd(str, delimiter) ==
    SplitIterator(Len(str), str, delimiter)

SplitInit ==
    /\ lens = <<>>
    /\ ConcatInit
    /\ DistIdle
    /\ SplitIdle /\ GenIdle
    /\ CartIdle
    /\ ViewIdle /\ CatIdle /\ JumpIdle /\ RandIdle

\* A split view over a string and a non-empty delimiter is made and its
\* begin cursor copied out.
SplitMake ==
    \E str \in StringsUpTo(MaxStr), delimiter \in StringsUpTo(MaxDelim) \ {<<>>} :
        /\ ~sit.made
        /\ sstr' = str
        /\ sdelim' = delimiter
        /\ sit' = SplitBegin(str, delimiter)
        /\ send' = SplitEnd(str, delimiter)
        /\ UNCHANGED <<lens, concatVars, distVars, cartVars, viewVars, catVars,
                       jumpVars, randVars, stoks, ssteps, genVars>>

\* One pass of `for (; it != end; ++it) use(*it);` over the split view,
\* followed for at most length(s) + 1 passes.
SplitTraverse ==
    /\ sit.made
    /\ SplitNe(sit, send)
    /\ ssteps <= Len(sstr)
    /\ stoks' = Append(stoks, SplitStar(sit, sstr))
    /\ sit' = SplitPlusPlus(sit, sstr, sdelim)
    /\ ssteps' = ssteps + 1
    /\ UNCHANGED <<lens, concatVars, distVars, cartVars, viewVars, catVars,
                   jumpVars, randVars, sstr, sdelim, send, genVars>>

SplitNext ==
    \/ SplitMake
    \/ SplitTraverse

\* The loop runs on: the code is sequential and nothing suspends it.
SpecSplit ==
    SplitInit /\ [][SplitNext]_vars /\ WF_vars(SplitTraverse)

\* The position stays within the string, no more steps were made than the
\* string has characters, the end cursor is at length(s), and over an empty
\* string begin equals end.
SplitBounded ==
    sit.made =>
        /\ sit.currentPos <= Len(sstr)
        /\ ssteps <= Len(sstr)
        /\ send.currentPos = Len(sstr)
        /\ Len(sstr) = 0 => SplitEq(SplitBegin(sstr, sdelim), send)

\* C22 (split cursor progress and termination): every operator++ on a
\* cursor from begin that is not equal to end strictly increases the
\* position and keeps it within length(s); the cursor equals end after at
\* most length(s) steps; for an empty string begin equals end.
C22_SplitProgress ==
    /\ []SplitBounded
    /\ [][SplitTraverse => /\ sit'.currentPos > sit.currentPos
                            /\ sit'.currentPos <= Len(sstr)]_vars
    /\ sit.made ~> SplitEq(sit, send)

\* C22 witness: "bab" split on "a" took two steps to reach end, and the
\* first of them went past the delimiter.
C22_Witness ==
    /\ sstr = <<"b", "a", "b">>
    /\ sdelim = <<"a">>
    /\ ssteps = 2
    /\ SplitEq(sit, send)

RECURSIVE TokensFrom(_, _, _)
\* The substrings of str from position pos on that lie between successive
\* left-to-right non-overlapping occurrences of d; an occurrence that ends
\* the string is followed by no token.
TokensFrom(str, d, pos) ==
    LET i == Find(str, d, pos)
    IN  IF i = Npos THEN <<SubStringToLength(str, pos)>>
        ELSE IF i + Len(d) = Len(str) THEN <<SubStringCount(str, pos, i - pos)>>
        ELSE <<SubStringCount(str, pos, i - pos)>> \o TokensFrom(str, d, i + Len(d))

\* The tokens of the whole string; the empty string has none.
Tokens(str, d) ==
    IF str = <<>> THEN <<>> ELSE TokensFrom(str, d, 0)

RECURSIVE Join(_, _)
\* The tokens written one after the other with d between them.
Join(toks, d) ==
    IF toks = <<>> THEN <<>>
    ELSE IF Len(toks) = 1 THEN toks[1]
    ELSE toks[1] \o d \o Join(Tail(toks), d)

\* C23 (split token sequence): the tokens dereferenced while stepping from
\* begin to end are the substrings between successive left-to-right
\* non-overlapping occurrences of d, in order, with no trailing empty token
\* after an occurrence that ends s; joined with d they give s, or s without
\* that trailing d.
C23_SplitTokens ==
    sit.made =>
        /\ Len(stoks) <= Len(Tokens(sstr, sdelim))
        /\ stoks = SubSeq(Tokens(sstr, sdelim), 1, Len(stoks))
        /\ SplitEq(sit, send) =>
               /\ stoks = Tokens(sstr, sdelim)
               /\ \/ Join(stoks, sdelim) = sstr
                  \/ Join(stoks, sdelim) \o sdelim = sstr

-----------------------------------------------------------------------------
(* SeedSequence<N>::generate(begin, end) of Random.hpp.  The loops are      *)
(* followed one iteration a step; what is kept of an iteration is the        *)
(* indices it used, which do not depend on the values in the range.          *)

\* a - b in std::size_t arithmetic.
USub(x1, x2) ==
    (x1 - x2) % (2 ^ SizeBits)

\* a + b in std::size_t arithmetic.
UAdd(x1, x2) ==
    (x1 + x2) % (2 ^ SizeBits)

\* const std::size_t m = std::max(s + 1, n)
GenM(s, n) ==
    IF UAdd(s, 1) < n THEN n ELSE UAdd(s, 1)

\* const std::size_t t
GenT(n) ==
    IF n >= 623 THEN 11
    ELSE IF n >= 68 THEN 7
    ELSE IF n >= 39 THEN 5
    ELSE IF n >= 7 THEN 3
    ELSE USub(n, 1) \div 2

\* const std::size_t p = (n - t) / 2
GenP(n) ==
    USub(n, GenT(n)) \div 2

\* const std::size_t q = p + t
GenQ(n) ==
    UAdd(GenP(n), GenT(n))

\* k - 1 taken as a signed number: -1 for k = 0.
GenPrevIndexSigned(k, n) ==
    IF k = 0 THEN -1 ELSE (k - 1) % n

\* (k - 1) % n with k a std::size_t
GenPrevIndex(k, n) ==
    USub(k, 1) % n

\* The positions of the output range an iteration reads.
GenReads(k, n) ==
    {k % n, UAdd(k, GenP(n)) % n, GenPrevIndex(k, n)}

\* The positions of the output range an iteration writes.
GenWrites(k, n) ==
    {UAdd(k, GenP(n)) % n, UAdd(k, GenQ(n)) % n, k % n}

\* The positions of _seed an iteration of the first loop reads: _seed[k - 1]
\* in the branch k != 0, k <= s.
GenSeedReads(k, s) ==
    IF k = 0 THEN {}
    ELSE IF k <= s THEN {USub(k, 1)}
    ELSE {}

GenInit ==
    /\ lens = <<>>
    /\ ConcatInit
    /\ DistIdle
    /\ SplitIdle /\ GenIdle
    /\ CartIdle
    /\ ViewIdle /\ CatIdle /\ JumpIdle /\ RandIdle

\* generate(begin, end) is called on a SeedSequence<s> with a range of
\* length n: it returns at once when begin == end, otherwise std::fill
\* writes every position.
GenCall ==
    \E s \in 0..MaxSeedN, n \in 0..MaxOut :
        /\ gphase = "idle"
        /\ gN' = s
        /\ gn' = n
        /\ gk' = 0
        /\ gacc' = NoAcc
        /\ gphase' = IF n = 0 THEN "done" ELSE "loop1"
        /\ gwritten' = IF n = 0 THEN {} ELSE 0..(n - 1)
        /\ UNCHANGED <<lens, concatVars, distVars, cartVars, viewVars, catVars,
                       jumpVars, randVars, splitVars>>

\* One iteration of for (k = 0; k < m - 1; k++).
GenLoop1 ==
    /\ gphase = "loop1"
    /\ gk < USub(GenM(gN, gn), 1)
    /\ gacc' = [reads |-> GenReads(gk, gn), writes |-> GenWrites(gk, gn),
                seed |-> GenSeedReads(gk, gN)]
    /\ gwritten' = gwritten \cup GenWrites(gk, gn)
    /\ gk' = UAdd(gk, 1)
    /\ UNCHANGED <<lens, concatVars, distVars, cartVars, viewVars, catVars,
                   jumpVars, randVars, splitVars, gN, gn, gphase>>

\* The first loop ends and the second starts with k = m.
GenLoop1Exit ==
    /\ gphase = "loop1"
    /\ ~(gk < USub(GenM(gN, gn), 1))
    /\ gphase' = "loop2"
    /\ gk' = GenM(gN, gn)
    /\ UNCHANGED <<lens, concatVars, distVars, cartVars, viewVars, catVars,
                   jumpVars, randVars, splitVars, gN, gn, gacc, gwritten>>

\* One iteration of for (k = m; k < m + n - 1; k++).
GenLoop2 ==
    /\ gphase = "loop2"
    /\ gk < USub(UAdd(GenM(gN, gn), gn), 1)
    /\ gacc' = [reads |-> GenReads(gk, gn), writes |-> GenWrites(gk, gn),
                seed |-> {}]
    /\ gwritten' = gwritten \cup GenWrites(gk, gn)
    /\ gk' = UAdd(gk, 1)
    /\ UNCHANGED <<lens, concatVars, distVars, cartVars, viewVars, catVars,
                   jumpVars, randVars, splitVars, gN, gn, gphase>>

\* The second loop ends and generate returns.
GenLoop2Exit ==
    /\ gphase = "loop2"
    /\ ~(gk < USub(UAdd(GenM(gN, gn), gn), 1))
    /\ gphase' = "done"
    /\ UNCHANGED <<lens, concatVars, distVars, cartVars, viewVars, catVars,
                   jumpVars, randVars, splitVars, gN, gn, gk, gacc, gwritten>>

GenNext ==
    \/ GenCall
    \/ GenLoop1
    \/ GenLoop1Exit
    \/ GenLoop2
    \/ GenLoop2Exit

SpecGen ==
    GenInit /\ [][GenNext]_vars

\* C24 (generate index safety): every index an iteration uses to read or
\* write the output range lies in [0, n), the wrapped (k - 1) % n of k = 0
\* included; every index used to read _seed lies in [0, N); and for an empty
\* output range nothing is written.
C24_IndexSafety ==
    /\ gacc.reads \subseteq 0..(gn - 1)
    /\ gacc.writes \subseteq 0..(gn - 1)
    /\ gacc.seed \subseteq 0..(gN - 1)
    /\ gwritten \subseteq 0..(gn - 1)
    /\ gn = 0 => gwritten = {} /\ gacc = NoAcc /\ gphase \in {"idle", "done"}

\* C24 witness: the iteration k = 0 on a range of length 5 has run and read
\* position (2^w - 1) % 5, the wrapped k - 1.
C24_Witness ==
    /\ gphase = "loop1"
    /\ gk = 1
    /\ gn = 5 /\ gN = 3
    /\ (2 ^ SizeBits - 1) % 5 \in gacc.reads
    /\ gacc.reads = {0, GenP(5), (2 ^ SizeBits - 1) % 5}

-----------------------------------------------------------------------------
(* Cartesian product view.  CartesianProduct.hpp builds its two cursors as  *)
(* iterator(begin, begin, end) and iterator(end, begin, end); the cursor's   *)
(* own operators are in detail/CartesianProductIterator.hpp and are taken    *)
(* here from the design text (section 4.2, Cartesian semantics).             *)

\* _iterators of the view's begin cursor: iterator(begin, begin, end).
CartBeginCursor ==
    Begin

\* _iterators of the view's end cursor: iterator(end, begin, end).
CartEndCursor ==
    End

RECURSIVE CartPlusPlus(_, _, _)
\* step-forward: inspect member I; if it is not at its end advance it and
\* stop, otherwise recurse to member I - 1 (member I is not reset); the
\* recursion terminates at member 0.
CartPlusPlus(iterators, end, I) ==
    IF iterators[I] # end[I]
    THEN [iterators EXCEPT ![I] = @ + 1]
    ELSE IF I = 1 THEN iterators
         ELSE CartPlusPlus(iterators, end, I - 1)

\* equality: cursor groups are equal iff all member cursors are pairwise equal.
CartNotEqual(x, y) ==
    \E i \in 1..Len(x) : x[i] # y[i]

\* dereference: one combination, the current value of every member.
CartDeref(iterators) ==
    [i \in 1..Len(iterators) |-> Star(i, iterators[i])]

\* The member a step-forward changes, 0 when it changes none.
Changed(x, y) ==
    IF x = y THEN 0 ELSE CHOOSE i \in 1..N : x[i] # y[i]

\* since after a step that changed member m: every other member counts one
\* more advance of m, and m's own counts start again.
SinceAfter(m) ==
    [i \in 1..N |-> [j \in 1..N |->
        IF i = m THEN 0
        ELSE IF j = m THEN since[i][j] + 1
             ELSE since[i][j]]]

CartInit ==
    /\ lens \in LensSet
    /\ ConcatInit
    /\ DistIdle
    /\ SplitIdle /\ GenIdle
    /\ cur = CartBeginCursor
    /\ csteps = 0
    /\ cout = <<>>
    /\ since = [i \in 1..N |-> [j \in 1..N |-> 0]]
    /\ ViewIdle /\ CatIdle /\ JumpIdle /\ RandIdle

\* One pass of `for (; it != end; ++it) use(*it);` over the product view.
CartTraverse ==
    /\ CartNotEqual(cur, CartEndCursor)
    /\ csteps < StepCap
    /\ cout' = Append(cout, CartDeref(cur))
    /\ cur' = CartPlusPlus(cur, End, N)
    /\ csteps' = csteps + 1
    /\ since' = IF Changed(cur, cur') = 0 THEN since
                ELSE SinceAfter(Changed(cur, cur'))
    /\ UNCHANGED <<lens, concatVars, distVars, extVars>>

CartNext ==
    \/ CartTraverse

SpecCart ==
    CartInit /\ [][CartNext]_vars

RECURSIVE ProdFrom(_, _)
\* L[i] x L[i+1] x ... x L[Len(L)].
ProdFrom(L, i) ==
    IF i > Len(L) THEN 1 ELSE L[i] * ProdFrom(L, i + 1)

\* Number of combinations of the member sequences.
Product ==
    ProdFrom(lens, 1)

\* The k-th combination (k from 0) in lexicographic order, last member fastest.
Combo(k) ==
    [i \in 1..N |-> Star(i, (k \div ProdFrom(lens, i + 1)) % lens[i])]

\* Every combination in odometer order.
AllCombos ==
    [k \in 1..Product |-> Combo(k - 1)]

=============================================================================
